---- MODULE Spec2Model ----
(***************************************************************************)
(* Model of the Google-Sheets reconciliation of videogame-events-api:      *)
(* the cron handler (api/cron.ts), the on-demand route POST                *)
(* /api/sync/sheets (syncController.ts) and syncFromGoogleSheets with its  *)
(* three sheet loops (services/googleSheetsSync.ts), over a document store *)
(* of Festival, SteamFeature and SyncLog documents.                        *)
(***************************************************************************)
EXTENDS Integers, Sequences, FiniteSets, TLC

\* ------------------------------------------------------------------ bounds
MaxPasses == 1      \* sync passes started in one behaviour of Spec and SpecCron
IdemPasses == 2     \* sync passes started in one behaviour of SpecIdem
MaxRows == 2        \* data rows of one exported sheet
MaxFaults == 1      \* rejected store calls (upsert, find, deleteMany) in one behaviour

\* ------------------------------------------------------- program constants
IMAGE_LIMIT == 5    \* imageLimit handed to runPostSyncEnrichment by the cron handler
AI_LIMIT == 3       \* aiLimit handed to runPostSyncEnrichment by the cron handler
AI_ENRICHMENT_VERSION == 1
SHEETS_ATTEMPTED == 3
API_DEFAULT_LIMIT == 10    \* startEnrichment: the limit when the request gives none
STEAM_DEFAULT_LIMIT == 10  \* enrichFromSteam: the limit when the request gives none

\* festival names; C is on no sheet and in no CSV file, and is stored only in
\* the stores of SpecStarve
Names == {"A", "B", "C"}
Contents == {1, 2}                       \* descriptive fields of a row, abstracted
Categories == {"curated", "on-the-fence"}
Handlers == {"cron", "sheets"}           \* the two entry points that run a pass
CRON_SECRET == "s3cret"
Headers == {"none", "Bearer s3cret", "Bearer wrong", "s3cret"}
FetchError == "HTTP 500: Internal Server Error"

Absent == [absent |-> TRUE]
NullDate == {}                           \* lastSyncedAt: null; a date t is {t}

Keys == Names \X Categories

\* --------------------------------------------------------------- variables
VARIABLES
  festivals,      \* Festival collection: key (name, category) -> document or Absent
  steamFeatures,  \* SteamFeature collection: the festivalName keys stored
  syncLogs,       \* SyncLog collection, in creation order
  isConnected,    \* api/cron.ts module-level connection flag
  clock,          \* the wall clock read by new Date()
  faults,         \* store calls rejected so far
  sheet,          \* SpecIdem only: the rows the two festival sheets export
  proc,           \* per handler: program counter and the locals of its pass
  csv,            \* the run of syncAllData, the CSV path
  runner          \* the run of an Enrichment Runner

vars == <<festivals, steamFeatures, syncLogs, isConnected, clock, faults, sheet, proc,
          csv, runner>>

\* ------------------------------------------------------------ data shapes
Sheets == {"curated", "on-the-fence", "steam"}

\* the prefix syncFromGoogleSheets gives the error string of a sheet
SheetLabel(s) ==
  IF s = "curated" THEN "Curated"
  ELSE IF s = "on-the-fence" THEN "On the Fence" ELSE "Steam Tracker"

\* the festivals a sheet may list: two on the curated sheet, one on the other
SheetNames(c) == IF c = "curated" THEN {"A", "B"} ELSE {"A"}
SheetValues(c) == IF c = "curated" THEN Contents ELSE {1}

\* a CSV record of a festival sheet: the 'Festival' column and the other
\* columns; a record with an empty 'Festival' cell is not a data row
RawRows(c) ==
  {[name |-> n, content |-> v] : n \in SheetNames(c), v \in SheetValues(c)}
    \cup (IF c = "curated" THEN {[name |-> "", content |-> 1]} ELSE {})

SeqsUpTo(S, n) == UNION {[1..k -> S] : k \in 0..n}

SheetContents(c) == SeqsUpTo(RawRows(c), MaxRows)  \* what a festival sheet may export
SteamNames == {"A"}
SteamContents == SeqsUpTo(SteamNames, MaxRows)   \* festivalName column of the Steam sheet

DefaultEnrichment ==
  [imageUrl |-> "null", verificationStatus |-> "pending", lastCheckedAt |-> NullDate]
DefaultAIEnrichment ==
  [version |-> 0, enrichmentStatus |-> "pending", enrichedAt |-> NullDate]

NoSlug == "null"                         \* slug: missing, null or empty

EmptyStore == [k \in Keys |-> Absent]

Stored(fs, k) == fs[k] # Absent

InCategory(fs, c) == {k \in Keys : k[2] = c /\ Stored(fs, k)}

\* SheetSyncResult
NoResult == [success |-> FALSE, count |-> 0, syncedNames |-> <<>>, error |-> ""]

IdleProc ==
  [pc |-> "idle", sheet |-> "curated", authHeader |-> "none", status |-> 0,
   effects |-> {}, timestamp |-> 0, errors |-> <<>>, deletedCount |-> 0,
   result |-> [s \in Sheets |-> NoResult],
   rows |-> <<>>, i |-> 1, syncedNames |-> <<>>, syncedCount |-> 0,
   \* history of the pass, read by the properties only: the store when the
   \* pass began, the rows whose upsert threw, the usable rows of each sheet
   before |-> EmptyStore, failed |-> {}, usable |-> [c \in Categories |-> -1]]

\* ------------------------------------------------------- pure functions
\* the row filter of syncCuratedSheet / syncOnTheFenceSheet: a usable name
UsableName(name, c) ==
  /\ name # ""
  /\ (c = "curated" => name \notin {"OPEN", "CLOSING"})  \* section-header rows

RECURSIVE SelectSeq2(_, _)
SelectSeq2(s, c) ==
  IF s = <<>> THEN <<>>
  ELSE IF UsableName(Head(s).name, c)
       THEN <<Head(s)>> \o SelectSeq2(Tail(s), c)
       ELSE SelectSeq2(Tail(s), c)

\* records.filter(...).map(...).filter(...): the normalized rows of category c
Normalize(raw, c) == SelectSeq2(raw, c)

RECURSIVE DedupFrom(_, _)
DedupFrom(s, seenNames) ==
  IF s = <<>> THEN <<>>
  ELSE IF Head(s).name \in seenNames
       THEN DedupFrom(Tail(s), seenNames)
       ELSE <<Head(s)>> \o DedupFrom(Tail(s), seenNames \cup {Head(s).name})

RECURSIVE DeduplicateKeepLast(_)
\* a filter that keeps the last occurrence of every name
DeduplicateKeepLast(s) ==
  IF s = <<>> THEN <<>>
  ELSE IF \E j \in 2..Len(s) : s[j].name = Head(s).name
       THEN DeduplicateKeepLast(Tail(s))
       ELSE <<Head(s)>> \o DeduplicateKeepLast(Tail(s))

\* keep the first occurrence of every name
Deduplicate(s) == DedupFrom(s, {})

\* a replacement of the whole document by the row, in place of the $set
UpsertReplace(fs, row, c, t) ==
  [fs EXCEPT ![<<row.name, c>>] =
     [content |-> row.content, lastSyncedAt |-> {t}, slug |-> NoSlug,
      enrichment |-> DefaultEnrichment, aiEnrichment |-> DefaultAIEnrichment]]

\* Festival.findOneAndUpdate({name, category}, festival, {upsert: true}):
\* a $set of the row's fields on the matched document, or an insert with the
\* schema defaults when none matches; the row has no slug and no save hook runs
UpsertFestival(fs, row, c, t) ==
  LET k == <<row.name, c>> IN
  IF Stored(fs, k)
  THEN [fs EXCEPT ![k] = [@ EXCEPT !.content = row.content, !.lastSyncedAt = {t}]]
  ELSE [fs EXCEPT ![k] = [content |-> row.content, lastSyncedAt |-> {t},
                          slug |-> NoSlug,
                          enrichment |-> DefaultEnrichment,
                          aiEnrichment |-> DefaultAIEnrichment]]

\* a stale query without its $exists / null clauses
IsStaleDatedOnly(doc, t) == \E d \in doc.lastSyncedAt : d < t

\* a stale query with $lte in place of $lt
IsStaleOrCurrent(doc, t) ==
  \/ \E d \in doc.lastSyncedAt : d <= t
  \/ doc.lastSyncedAt = NullDate

\* the stale query: lastSyncedAt < timestamp, or missing, or null
IsStale(doc, t) ==
  \/ \E d \in doc.lastSyncedAt : d < t
  \/ doc.lastSyncedAt = NullDate

StaleKeys(fs, c, t) == {k \in InCategory(fs, c) : IsStale(fs[k], t)}

\* a deleteMany whose filter has no category
DeleteManyAnyCategory(fs, ks) ==
  [k \in Keys |-> IF \E q \in ks : q[1] = k[1] THEN Absent ELSE fs[k]]

DeleteMany(fs, ks) == [k \in Keys |-> IF k \in ks THEN Absent ELSE fs[k]]

\* a deletion guard that looks at result.success only
MayDeleteStaleOnSuccess(res) == res.success

\* the deletion guard of syncFromGoogleSheets
MayDeleteStale(res) == res.success /\ res.count > 0

\* a comparison that also takes the bare secret
AuthorizedBySecret(hdr) == hdr \in {"Bearer " \o CRON_SECRET, CRON_SECRET}

\* the cron handler's comparison of the Authorization header
Authorized(hdr) == hdr = "Bearer " \o CRON_SECRET

\* a status that calls a run with as many errors as sheets partial
SyncStatusUpTo(errs) ==
  IF Len(errs) = 0 THEN "success"
  ELSE IF Len(errs) <= SHEETS_ATTEMPTED THEN "partial" ELSE "failed"

SyncStatus(errs) ==
  IF Len(errs) = 0 THEN "success"
  ELSE IF Len(errs) < SHEETS_ATTEMPTED THEN "partial" ELSE "failed"

\* FullSyncResult, built from the three sheet results
Report(pr) ==
  [curatedCount |-> pr.result["curated"].count,
   onTheFenceCount |-> pr.result["on-the-fence"].count,
   steamFeaturesCount |-> pr.result["steam"].count,
   totalFestivals |-> pr.result["curated"].count + pr.result["on-the-fence"].count,
   deletedCount |-> pr.deletedCount,
   errors |-> pr.errors,
   timestamp |-> pr.timestamp]

\* errors.push(`${label}: ${result.error}`) when the sheet did not succeed
PushSheetError(errs, res, s) ==
  IF ~res.success /\ res.error # ""
  THEN Append(errs, SheetLabel(s) \o ": " \o res.error)
  ELSE errs

\* an orchestrator that goes straight to the Steam sheet
SheetAfterSkipping(s) == "steam"

\* the sheet handled after sheet s, and where the pass goes after the last one
SheetAfter(s) == IF s = "curated" THEN "on-the-fence" ELSE "steam"

\* a loop that a throwing upsert leaves
AbortAfterFailedUpsert(i, len) == len + 1

\* the row handled after row i of a festival loop whose upsert threw: the
\* catch is inside the loop, so the loop goes on with the next row
AfterFailedUpsert(i, len) == i + 1

\* ------------------------------------------------------------------ slugs
\* generateSlug: lowercase, punctuation stripped, blanks to hyphens
GenerateSlug(name) ==
  IF name = "A" THEN "a" ELSE IF name = "B" THEN "b" ELSE IF name = "C" THEN "c" ELSE ""

\* generateUniqueSlug of the CSV path: the year of the deadline, if the row
\* has one, is appended to the base slug
GenerateUniqueSlug(name, year) ==
  IF year # "" THEN GenerateSlug(name) \o "-" \o year ELSE GenerateSlug(name)

\* `${baseSlug}-${counter}`
Suffixed(base, n) == base \o "-" \o ToString(n)

\* Festival.findOne({slug, _id: {$ne: this._id}}) finds a document
SlugHeld(fs, k, slug) == \E q \in Keys \ {k} : Stored(fs, q) /\ fs[q].slug = slug

\* a hook that takes the base slug without looking for its holder
BaseSlug(fs, k) == GenerateSlug(k[1])

\* the while loop of the pre-save hook and of generateMissingSlugs: the base
\* slug, or the base slug with the first counter from 1 that no other
\* document holds
UniqueSlug(fs, k) ==
  LET base == GenerateSlug(k[1]) IN
  IF ~SlugHeld(fs, k, base) THEN base
  ELSE Suffixed(base, CHOOSE n \in 1..Cardinality(Keys) :
                        /\ ~SlugHeld(fs, k, Suffixed(base, n))
                        /\ \A m \in 1..(n - 1) : SlugHeld(fs, k, Suffixed(base, m)))

\* FestivalSchema.pre('save'): a document without a slug gets one (no path
\* of the program saves a document whose name it modified)
PreSave(fs, k) ==
  IF fs[k].slug = NoSlug THEN [fs EXCEPT ![k].slug = UniqueSlug(fs, k)] ELSE fs

RECURSIVE SetSlugs(_, _)
\* the loop of generateMissingSlugs: updateOne({$set: {slug}}) for the
\* documents of ord in turn
SetSlugs(fs, ord) ==
  IF ord = <<>> THEN fs
  ELSE SetSlugs([fs EXCEPT ![Head(ord)].slug = UniqueSlug(fs, Head(ord))], Tail(ord))

RECURSIVE Orders(_)
\* the orders in which the documents of a set can be handled
Orders(S) ==
  IF S = {} THEN {<<>>}
  ELSE UNION {{<<x>> \o ord : ord \in Orders(S \ {x})} : x \in S}

\* -------------------------------------------------------------- initial state
\* a festival stored by a path that never set lastSyncedAt (schema default null)
LegacyDoc ==
  [content |-> 1, lastSyncedAt |-> NullDate, slug |-> NoSlug,
   enrichment |-> DefaultEnrichment, aiEnrichment |-> DefaultAIEnrichment]

\* a festival upserted by a pass that ran at epoch 0, before the behaviour
SyncedDoc ==
  [content |-> 1, lastSyncedAt |-> {0}, slug |-> NoSlug,
   enrichment |-> DefaultEnrichment, aiEnrichment |-> DefaultAIEnrichment]

\* the same, after the page scrape found an image and the AI lookup content
EnrichedDoc ==
  [content |-> 1, lastSyncedAt |-> {0}, slug |-> NoSlug,
   enrichment |-> [imageUrl |-> "img", verificationStatus |-> "verified",
                   lastCheckedAt |-> {0}],
   aiEnrichment |-> [version |-> AI_ENRICHMENT_VERSION,
                     enrichmentStatus |-> "enriched", enrichedAt |-> {0}]]

\* a festival the AI lookup enriched before AI_ENRICHMENT_VERSION was raised
OutdatedDoc ==
  [EnrichedDoc EXCEPT !.aiEnrichment.version = AI_ENRICHMENT_VERSION - 1]

InitialDocs(k) ==
  IF k = <<"A", "curated">> THEN {Absent, SyncedDoc, EnrichedDoc}
  ELSE IF k = <<"B", "curated">> THEN {Absent, LegacyDoc, SyncedDoc}
  ELSE IF k = <<"A", "on-the-fence">> THEN {Absent, SyncedDoc}
  ELSE IF k = <<"B", "on-the-fence">> THEN {Absent, LegacyDoc}
  ELSE {Absent}

InitialStores == {fs \in [Keys -> {Absent, LegacyDoc, SyncedDoc, EnrichedDoc}] :
                    \A k \in Keys : fs[k] \in InitialDocs(k)}

NoSheet == [c \in Categories |-> <<>>]

\* syncAllData is not running
IdleCsv ==
  [pc |-> "idle", file |-> "curated", rows |-> <<>>, i |-> 1, errors |-> <<>>,
   festivalsCount |-> 0, steamFeaturesCount |-> 0,
   \* history of the run, read by the properties only: the rows of each file
   parsed |-> [c \in Categories |-> <<>>]]

\* no Enrichment Runner is running
IdleRunner ==
  [pc |-> "idle", strategy |-> "scrape", via |-> "script", limitParam |-> {},
   force |-> FALSE, limit |-> 0, list |-> <<>>, i |-> 1,
   stats |-> [enriched |-> 0, failed |-> 0, skipped |-> 0],
   \* history of the run, read by the properties only
   called |-> FALSE, slept |-> FALSE, noDelayCall |-> FALSE, attempted |-> {},
   gone |-> {}]

InitCommon ==
  /\ steamFeatures = {}
  /\ syncLogs = <<>>
  /\ isConnected = FALSE
  /\ clock = 0
  /\ faults = 0
  /\ proc = [h \in Handlers |-> IdleProc]
  /\ csv = IdleCsv
  /\ runner = IdleRunner

Init ==
  /\ festivals \in InitialStores
  /\ sheet = NoSheet
  /\ InitCommon

\* a store call is rejected (ok = FALSE) at most MaxFaults times
StoreCall(ok) ==
  /\ ok \/ faults < MaxFaults
  /\ faults' = IF ok THEN faults ELSE faults + 1

\* no pass of another handler is running
Sequential(p) == \A q \in Handlers \ {p} : proc[q].pc \in {"idle", "responded"}

\* the first statements of syncFromGoogleSheets: errors, timestamp, deletedCount
BeginPass(pr, hdr) ==
  [IdleProc EXCEPT !.pc = "fetch", !.sheet = "curated", !.authHeader = hdr,
                   !.effects = pr.effects \cup {"sync"},
                   !.timestamp = clock + 1, !.before = festivals]

\* ------------------------------------------------------------ entry points
\* api/cron.ts handler, up to the authorization check
CronRequest(hdr) ==
  /\ proc["cron"].pc = "idle"
  /\ proc' = [proc EXCEPT !["cron"] =
                IF Authorized(hdr)
                THEN [IdleProc EXCEPT !.pc = "connect", !.authHeader = hdr]
                ELSE [IdleProc EXCEPT !.pc = "responded", !.authHeader = hdr,
                                      !.status = 401]]
  /\ UNCHANGED <<festivals, steamFeatures, syncLogs, isConnected, clock, faults, sheet,
                 csv, runner>>

\* ensureDbConnection, then the call of syncFromGoogleSheets
CronConnect(ok, limit) ==
  /\ proc["cron"].pc = "connect"
  /\ clock < limit
  /\ isConnected => ok
  /\ StoreCall(ok)
  /\ IF isConnected \/ ok
     THEN /\ isConnected' = TRUE
          /\ clock' = clock + 1
          /\ proc' = [proc EXCEPT !["cron"] =
                        BeginPass([proc["cron"] EXCEPT !.effects =
                                     IF isConnected THEN @ ELSE @ \cup {"connect"}],
                                  proc["cron"].authHeader)]
     ELSE /\ proc' = [proc EXCEPT !["cron"].pc = "responded", !["cron"].status = 500]
          /\ UNCHANGED <<isConnected, clock>>
  /\ UNCHANGED <<festivals, steamFeatures, syncLogs, sheet, csv, runner>>

\* POST /api/sync/sheets: triggerGoogleSheetsSync calls syncFromGoogleSheets
SheetsRequest(hdr, limit) ==
  /\ proc["sheets"].pc = "idle"
  /\ clock < limit
  /\ clock' = clock + 1
  /\ proc' = [proc EXCEPT !["sheets"] = BeginPass(proc["sheets"], hdr)]
  /\ UNCHANGED <<festivals, steamFeatures, syncLogs, isConnected, faults, sheet, csv, runner>>

\* ------------------------------------------------- syncFromGoogleSheets
\* syncCuratedSheet / syncOnTheFenceSheet up to the upsert loop: the fetch
\* throws, or the rows are parsed, normalized and deduplicated
FetchFestivalSheet(p, fails, raw) ==
  LET pr == proc[p]
      c  == pr.sheet
      res == [success |-> FALSE, count |-> 0, syncedNames |-> <<>>,
              error |-> FetchError]
  IN
  /\ pr.pc = "fetch"
  /\ c \in Categories
  /\ proc' = [proc EXCEPT ![p] =
       IF fails
       THEN [pr EXCEPT !.result[c] = res,
                       !.errors = PushSheetError(pr.errors, res, c),
                       !.sheet = SheetAfter(c)]
       ELSE [pr EXCEPT !.pc = "upsert",
                       !.rows = Deduplicate(Normalize(raw, c)),
                       !.usable[c] = Len(Deduplicate(Normalize(raw, c))),
                       !.i = 1, !.syncedNames = <<>>, !.syncedCount = 0]]
  /\ UNCHANGED <<festivals, steamFeatures, syncLogs, isConnected, clock, faults, sheet,
                 csv, runner>>

\* one iteration of the upsert loop of a festival sheet
UpsertRow(p, ok) ==
  LET pr == proc[p]
      c  == pr.sheet
      row == pr.rows[pr.i]
  IN
  /\ pr.pc = "upsert"
  /\ c \in Categories
  /\ pr.i <= Len(pr.rows)
  /\ StoreCall(ok)
  /\ IF ok
     THEN /\ festivals' = UpsertFestival(festivals, row, c, pr.timestamp)
          /\ proc' = [proc EXCEPT ![p].syncedNames = Append(@, row.name),
                                  ![p].syncedCount = @ + 1,
                                  ![p].i = @ + 1]
     ELSE /\ festivals' = festivals
          /\ proc' = [proc EXCEPT ![p].failed = @ \cup {<<row.name, c>>},
                                  ![p].i = AfterFailedUpsert(pr.i, Len(pr.rows))]
  /\ UNCHANGED <<steamFeatures, syncLogs, isConnected, clock, sheet, csv, runner>>

\* the return of syncCuratedSheet / syncOnTheFenceSheet after the loop
FinishFestivalSheet(p) ==
  LET pr == proc[p]
      c  == pr.sheet
      res == [success |-> TRUE, count |-> pr.syncedCount,
              syncedNames |-> pr.syncedNames, error |-> ""]
  IN
  /\ pr.pc = "upsert"
  /\ c \in Categories
  /\ pr.i > Len(pr.rows)
  /\ proc' = [proc EXCEPT ![p] =
       [pr EXCEPT !.pc = "fetch", !.sheet = SheetAfter(c),
                  !.result[c] = res,
                  !.errors = PushSheetError(pr.errors, res, c),
                  !.rows = <<>>, !.i = 1, !.syncedNames = <<>>, !.syncedCount = 0]]
  /\ UNCHANGED <<festivals, steamFeatures, syncLogs, isConnected, clock, faults, sheet,
                 csv, runner>>

\* syncSteamTrackerSheet up to its upsert loop
FetchSteamSheet(p, fails, raw) ==
  LET pr == proc[p]
      res == [success |-> FALSE, count |-> 0, syncedNames |-> <<>>,
              error |-> FetchError]
  IN
  /\ pr.pc = "fetch"
  /\ pr.sheet = "steam"
  /\ proc' = [proc EXCEPT ![p] =
       IF fails
       THEN [pr EXCEPT !.pc = "find", !.sheet = "curated",
                       !.result["steam"] = res,
                       !.errors = PushSheetError(pr.errors, res, "steam")]
       ELSE [pr EXCEPT !.pc = "upsert", !.rows = raw, !.i = 1,
                       !.syncedNames = <<>>, !.syncedCount = 0]]
  /\ UNCHANGED <<festivals, steamFeatures, syncLogs, isConnected, clock, faults, sheet,
                 csv, runner>>

\* one iteration of the Steam-feature loop: a throw leaves the loop and is
\* caught by the function's outer catch
UpsertSteamFeature(p, ok) ==
  LET pr == proc[p]
      res == [success |-> FALSE, count |-> 0, syncedNames |-> pr.syncedNames,
              error |-> "upsert failed"]
  IN
  /\ pr.pc = "upsert"
  /\ pr.sheet = "steam"
  /\ pr.i <= Len(pr.rows)
  /\ StoreCall(ok)
  /\ IF ok
     THEN /\ steamFeatures' = steamFeatures \cup {pr.rows[pr.i]}
          /\ proc' = [proc EXCEPT ![p].syncedNames = Append(@, pr.rows[pr.i]),
                                  ![p].syncedCount = @ + 1,
                                  ![p].i = @ + 1]
     ELSE /\ steamFeatures' = steamFeatures
          /\ proc' = [proc EXCEPT ![p] =
               [pr EXCEPT !.pc = "find", !.sheet = "curated",
                          !.result["steam"] = res,
                          !.errors = PushSheetError(pr.errors, res, "steam"),
                          !.rows = <<>>, !.i = 1, !.syncedNames = <<>>,
                          !.syncedCount = 0]]
  /\ UNCHANGED <<festivals, syncLogs, isConnected, clock, sheet, csv, runner>>

FinishSteamSheet(p) ==
  LET pr == proc[p]
      res == [success |-> TRUE, count |-> pr.syncedCount,
              syncedNames |-> pr.syncedNames, error |-> ""]
  IN
  /\ pr.pc = "upsert"
  /\ pr.sheet = "steam"
  /\ pr.i > Len(pr.rows)
  /\ proc' = [proc EXCEPT ![p] =
       [pr EXCEPT !.pc = "find", !.sheet = "curated",
                  !.result["steam"] = res,
                  !.errors = PushSheetError(pr.errors, res, "steam"),
                  !.rows = <<>>, !.i = 1, !.syncedNames = <<>>, !.syncedCount = 0]]
  /\ UNCHANGED <<festivals, steamFeatures, syncLogs, isConnected, clock, faults, sheet,
                 csv, runner>>

\* where the pass goes once the stale block of category c is over
AfterStale(pr, c) ==
  IF c = "curated"
  THEN [pr EXCEPT !.pc = "find", !.sheet = "on-the-fence"]
  ELSE [pr EXCEPT !.pc = "log"]

\* a store call of the stale block rejects: syncFromGoogleSheets rejects, the
\* cron handler's catch and the Express error handler answer 500
Rejected(pr) == [pr EXCEPT !.pc = "responded", !.status = 500]

\* the guard of the stale block of category c and its Festival.find
FindStale(p, ok) ==
  LET pr == proc[p]
      c  == pr.sheet
      n  == Cardinality(StaleKeys(festivals, c, pr.timestamp))
  IN
  /\ pr.pc = "find"
  /\ c \in Categories
  /\ ~MayDeleteStale(pr.result[c]) => ok
  /\ StoreCall(ok)
  /\ proc' = [proc EXCEPT ![p] =
       IF ~MayDeleteStale(pr.result[c]) THEN AfterStale(pr, c)
       ELSE IF ~ok THEN Rejected(pr)
       ELSE IF n > 0 THEN [pr EXCEPT !.pc = "delete"]
       ELSE AfterStale(pr, c)]
  /\ UNCHANGED <<festivals, steamFeatures, syncLogs, isConnected, clock, sheet, csv, runner>>

\* Festival.deleteMany of the stale block of category c
DeleteStale(p, ok) ==
  LET pr == proc[p]
      c  == pr.sheet
      ks == StaleKeys(festivals, c, pr.timestamp)
  IN
  /\ pr.pc = "delete"
  /\ c \in Categories
  /\ StoreCall(ok)
  /\ IF ok
     THEN /\ festivals' = DeleteMany(festivals, ks)
          /\ proc' = [proc EXCEPT ![p] =
               AfterStale([pr EXCEPT !.deletedCount = @ + Cardinality(ks)], c)]
     ELSE /\ festivals' = festivals
          /\ proc' = [proc EXCEPT ![p] = Rejected(pr)]
  /\ UNCHANGED <<steamFeatures, syncLogs, isConnected, clock, sheet, csv, runner>>

\* SyncLog.create and the return of the report
WriteSyncLog(p) ==
  LET pr == proc[p]
      report == Report(pr)
  IN
  /\ pr.pc = "log"
  /\ syncLogs' = Append(syncLogs,
                        [syncedAt |-> pr.timestamp,
                         festivalsCount |-> report.totalFestivals,
                         steamFeaturesCount |-> report.steamFeaturesCount,
                         status |-> SyncStatus(pr.errors),
                         syncErrors |-> pr.errors])
  /\ proc' = [proc EXCEPT ![p].pc = "done"]
  /\ UNCHANGED <<festivals, steamFeatures, isConnected, clock, faults, sheet, csv, runner>>

\* triggerGoogleSheetsSync answers with the report
SheetsRespond ==
  /\ proc["sheets"].pc = "done"
  /\ proc' = [proc EXCEPT !["sheets"].pc = "responded", !["sheets"].status = 200]
  /\ UNCHANGED <<festivals, steamFeatures, syncLogs, isConnected, clock, faults, sheet,
                 csv, runner>>

\* ------------------------------------------ cron: runPostSyncEnrichment
\* Festival.find(query).limit(n): any n of the matching documents
Limited(cands, n) ==
  {S \in SUBSET cands :
     Cardinality(S) = IF Cardinality(cands) < n THEN Cardinality(cands) ELSE n}

NeedsImage(doc) == doc.enrichment.imageUrl \in {"null", ""}

NeedsAI(doc) ==
  \/ doc.aiEnrichment.enrichmentStatus = "pending"
  \/ doc.aiEnrichment.version < AI_ENRICHMENT_VERSION

RECURSIVE SaveWithImages(_, _, _)
\* festival.enrichment.imageUrl = imageUrl; lastCheckedAt = new Date();
\* festival.save(), for the documents of ord in turn
SaveWithImages(fs, ord, t) ==
  IF ord = <<>> THEN fs
  ELSE SaveWithImages(
         PreSave([fs EXCEPT ![Head(ord)].enrichment.imageUrl = "img",
                            ![Head(ord)].enrichment.lastCheckedAt = {t}],
                 Head(ord)),
         Tail(ord), t)

\* enrichNewFestivalsWithImages({limit: 5}): the search finds an image for
\* some of the selected festivals, which are saved with it
EnrichImages(selected, found) ==
  /\ proc["cron"].pc = "done"
  /\ selected \in Limited({k \in Keys : Stored(festivals, k) /\ NeedsImage(festivals[k])},
                          IMAGE_LIMIT)
  /\ found \subseteq selected
  /\ \E ord \in Orders(found) : festivals' = SaveWithImages(festivals, ord, clock)
  /\ proc' = [proc EXCEPT !["cron"].pc = "ai",
                          !["cron"].effects = @ \cup {"enrich"}]
  /\ UNCHANGED <<steamFeatures, syncLogs, isConnected, clock, faults, sheet, csv, runner>>

\* enrichNewFestivalsWithAI({limit: 3}): every selected festival ends
\* enriched or failed, at the configured version
EnrichAI(selected, enriched) ==
  /\ proc["cron"].pc = "ai"
  /\ selected \in Limited({k \in Keys : Stored(festivals, k) /\ NeedsAI(festivals[k])},
                          AI_LIMIT)
  /\ enriched \subseteq selected
  /\ festivals' = [k \in Keys |->
                     IF k \in enriched
                     THEN [festivals[k] EXCEPT !.aiEnrichment =
                             [version |-> AI_ENRICHMENT_VERSION,
                              enrichmentStatus |-> "enriched",
                              enrichedAt |-> {clock}]]
                     ELSE IF k \in selected
                     THEN [festivals[k] EXCEPT
                             !.aiEnrichment.enrichmentStatus = "failed",
                             !.aiEnrichment.version = AI_ENRICHMENT_VERSION,
                             !.aiEnrichment.enrichedAt = {clock}]
                     ELSE festivals[k]]
  /\ proc' = [proc EXCEPT !["cron"].pc = "revalidate"]
  /\ UNCHANGED <<steamFeatures, syncLogs, isConnected, clock, faults, sheet, csv, runner>>

\* ------------------------------------------------------ Enrichment Runners
Strategies == {"scrape", "steam", "image", "ai"}

\* the limit query parameter of a request: absent ({}) or a number ({n})
LimitParams == {{}, {0}, {2}}

\* limit ? parseInt(limit, 10) : dflt
ParseLimitOr(param, dflt) == IF param = {} THEN dflt ELSE CHOOSE n \in param : TRUE

\* startEnrichment: options.limit, with the default for API calls
StartEnrichmentLimit(param) ==
  IF ParseLimitOr(param, 0) = 0 THEN API_DEFAULT_LIMIT ELSE ParseLimitOr(param, 0)

\* enrichFromSteam: options.limit
EnrichFromSteamLimit(param) == ParseLimitOr(param, STEAM_DEFAULT_LIMIT)

\* a page-scrape query that also takes the records marked verified
ScrapeQueryNotFailed(fs, force) ==
  {k \in Keys : Stored(fs, k) /\ fs[k].enrichment.verificationStatus # "failed"}

\* the query of enrichAllFestivals
ScrapeQuery(fs, force) ==
  {k \in Keys : Stored(fs, k)
                  /\ (force \/ fs[k].enrichment.verificationStatus = "pending")}

\* the query of enrichFromSteamPages (every festival is taken to have a
\* latestSteamPage)
SteamQuery(fs) == {k \in Keys : Stored(fs, k) /\ fs[k].enrichment.imageUrl = "null"}

\* the query of enrichNewFestivalsWithImages
ImageQuery(fs) == {k \in Keys : Stored(fs, k) /\ NeedsImage(fs[k])}

\* the query of enrichNewFestivalsWithAI
AIQuery(fs) == {k \in Keys : Stored(fs, k) /\ NeedsAI(fs[k])}

NameRank(n) == IF n = "A" THEN 1 ELSE IF n = "B" THEN 2 ELSE 3

\* .sort({name: 1})
SortedByName(ord) ==
  \A i, j \in 1..Len(ord) : i < j => NameRank(ord[i][1]) <= NameRank(ord[j][1])

\* .limit(n), which a limit of 0 leaves unbounded
Take(ord, n) ==
  IF n > 0 /\ n < Len(ord) THEN SubSeq(ord, 1, n) ELSE ord

\* the lists Festival.find(query)[.sort({name: 1})].limit(n) can return
Selections(fs, strategy, force, n) ==
  IF strategy \in {"scrape", "steam"}
  THEN {Take(ord, n) :
          ord \in {o \in Orders(IF strategy = "scrape" THEN ScrapeQuery(fs, force)
                                ELSE SteamQuery(fs)) : SortedByName(o)}}
  ELSE LET Q == IF strategy = "image" THEN ImageQuery(fs) ELSE AIQuery(fs)
           m == IF n > 0 /\ n < Cardinality(Q) THEN n ELSE Cardinality(Q)
       IN  \* the first m documents of the query, in any order
           {list \in [1..m -> Q] : \A i, j \in 1..m : list[i] = list[j] => i = j}

\* the runner starts on the list its query returned
BeginRun(strategy, via, force, param, n, list) ==
  /\ runner.pc = "idle"
  /\ list \in Selections(festivals, strategy, force, n)
  /\ runner' = [IdleRunner EXCEPT !.pc = "record", !.strategy = strategy, !.via = via,
                                  !.force = force, !.limitParam = param, !.limit = n,
                                  !.list = list]
  /\ UNCHANGED <<festivals, steamFeatures, syncLogs, isConnected, clock, faults, sheet,
                 proc, csv>>

\* GET/POST enrichment route: startEnrichment calls enrichAllFestivals
StartEnrichment(force, param, list) ==
  BeginRun("scrape", "http", force, param, StartEnrichmentLimit(param), list)

\* enrichFromSteam calls enrichFromSteamPages
EnrichFromSteam(param, list) ==
  BeginRun("steam", "http", FALSE, param, EnrichFromSteamLimit(param), list)

\* runPostSyncEnrichment calls enrichNewFestivalsWithImages({limit: imageLimit})
EnrichNewFestivalsWithImages(list) ==
  BeginRun("image", "cron", FALSE, {}, IMAGE_LIMIT, list)

\* runPostSyncEnrichment calls enrichNewFestivalsWithAI({limit: aiLimit})
EnrichNewFestivalsWithAI(list) ==
  BeginRun("ai", "cron", FALSE, {}, AI_LIMIT, list)

\* the query of the script's enrichAllFestivals({forceReEnrich, onlyFailed})
ScriptQuery(fs, forceReEnrich, onlyFailed) ==
  {k \in Keys : Stored(fs, k)
                  /\ \/ forceReEnrich
                     \/ IF onlyFailed
                        THEN fs[k].aiEnrichment.enrichmentStatus = "failed"
                        ELSE NeedsAI(fs[k])}

\* scripts/syncData.ts, enrichAllFestivals without a limit: the list is
\* sorted by name, and enrichFestival makes the writes of the AI runner
ScriptEnrichAll(forceReEnrich, onlyFailed, list) ==
  /\ runner.pc = "idle"
  /\ list \in {o \in Orders(ScriptQuery(festivals, forceReEnrich, onlyFailed)) :
                 SortedByName(o)}
  /\ runner' = [IdleRunner EXCEPT !.pc = "record", !.strategy = "ai", !.via = "script",
                                  !.force = forceReEnrich, !.list = list]
  /\ UNCHANGED <<festivals, steamFeatures, syncLogs, isConnected, clock, faults, sheet,
                 proc, csv>>

\* n store calls of this step are rejected, at most MaxFaults in a behaviour
Rejections(n) ==
  /\ faults + n <= MaxFaults
  /\ faults' = faults + n

\* the festival of this iteration
Current == runner.list[runner.i]

InLoop(strategy) ==
  /\ runner.pc = "record"
  /\ runner.strategy = strategy
  /\ runner.i <= Len(runner.list)

\* the strategy is called for the festival k (history of the run: gone
\* holds the festivals whose document was deleted before their iteration)
Called(r, k) ==
  [r EXCEPT !.noDelayCall = @ \/ (r.called /\ ~r.slept),
            !.called = TRUE, !.slept = FALSE,
            !.attempted = @ \cup {k},
            !.gone = @ \cup (IF Stored(festivals, k) THEN {} ELSE {k})]

\* an update with {upsert: true}: it inserts a document when none matches
UpsertById(fs, k, doc) ==
  [fs EXCEPT ![k] = IF Stored(fs, k) THEN doc ELSE LegacyDoc]

\* findByIdAndUpdate(_id, {$set}) and updateOne({_id}, {$set}), without the
\* upsert option: the document of k is changed if it is still stored, and
\* nothing is written otherwise (within one pass a deleted key is not
\* inserted again, so k stands for the _id the run selected)
UpdateById(fs, k, doc) ==
  IF Stored(fs, k) THEN [fs EXCEPT ![k] = doc] ELSE fs

Counted(r, stat) == [r EXCEPT !.stats[stat] = @ + 1]

\* the end of an iteration: `continue` goes to the next festival at once,
\* the end of the loop body goes through if (i < festivals.length - 1) sleep
EndIteration(r, continue) ==
  IF continue \/ r.i >= Len(r.list)
  THEN [r EXCEPT !.i = @ + 1]
  ELSE [r EXCEPT !.pc = "delay"]

Reject(r) == [r EXCEPT !.pc = "rejected"]

\* enrichAndUpdateFestival: the $set of findByIdAndUpdate
ScrapeUpdate(doc, outcome, t) ==
  [doc EXCEPT !.enrichment.lastCheckedAt = {t},
              !.enrichment.verificationStatus =
                 IF outcome = "nodata" THEN "failed" ELSE "verified",
              !.enrichment.imageUrl = IF outcome = "data" THEN "img" ELSE @]

\* enrichNewFestivalsWithAI: the $set of its updateOne calls
AIUpdate(doc, status, t) ==
  [doc EXCEPT !.aiEnrichment = [version |-> AI_ENRICHMENT_VERSION,
                                enrichmentStatus |-> status,
                                enrichedAt |-> {t}]]

\* one iteration of enrichAllFestivals: the page gives data with an image
\* ("data"), data without one ("partial"), nothing ("nodata"), or
\* enrichFestival throws; ok tells whether findByIdAndUpdate is accepted
ScrapeRecord(outcome, ok) ==
  /\ InLoop("scrape")
  /\ outcome \in {"data", "partial", "nodata", "throws"}
  /\ outcome = "throws" => ok
  /\ Rejections(IF ok THEN 0 ELSE 1)
  /\ festivals' = IF ok /\ outcome # "throws"
                  THEN UpdateById(festivals, Current,
                                  ScrapeUpdate(festivals[Current], outcome, clock))
                  ELSE festivals
  /\ runner' = EndIteration(
                 Counted(Called(runner, Current),
                         IF ok /\ outcome \in {"data", "partial"}
                         THEN "enriched" ELSE "failed"), FALSE)
  /\ UNCHANGED <<steamFeatures, syncLogs, isConnected, clock, sheet, proc, csv>>

\* one iteration of enrichFromSteamPages: the festival is skipped (no
\* Steam URL), or its page gives an image ("data") or none ("nodata");
\* a rejected findByIdAndUpdate is caught nowhere in the function
SteamRecord(outcome, ok) ==
  /\ InLoop("steam")
  /\ outcome \in {"skipped", "data", "nodata"}
  /\ outcome # "data" => ok
  /\ Rejections(IF ok THEN 0 ELSE 1)
  /\ festivals' = IF ok /\ outcome = "data"
                  THEN UpdateById(festivals, Current,
                                  [festivals[Current] EXCEPT
                                     !.enrichment.imageUrl = "img"])
                  ELSE festivals
  /\ runner' = IF outcome = "skipped"
               THEN EndIteration(Counted(runner, "skipped"), TRUE)
               ELSE IF ~ok
               THEN Reject(Called(runner, Current))
               ELSE EndIteration(
                      Counted(Called(runner, Current),
                              IF outcome = "data" THEN "enriched" ELSE "failed"), FALSE)
  /\ UNCHANGED <<steamFeatures, syncLogs, isConnected, clock, sheet, proc, csv>>

\* one iteration of enrichNewFestivalsWithImages: the search gives an
\* image ("data"), none ("nodata") or throws; ok tells whether
\* festival.save() is accepted; save() of a document that was deleted
\* meanwhile matches nothing and throws into the catch block
ImageRecord(outcome, ok) ==
  /\ InLoop("image")
  /\ outcome \in {"data", "nodata", "throws"}
  /\ outcome # "data" => ok
  /\ Rejections(IF ok THEN 0 ELSE 1)
  /\ festivals' = IF ok /\ outcome = "data" /\ Stored(festivals, Current)
                  THEN SaveWithImages(festivals, <<Current>>, clock)
                  ELSE festivals
  /\ runner' = EndIteration(
                 Counted(Called(runner, Current),
                         IF ok /\ outcome = "data" /\ Stored(festivals, Current)
                         THEN "enriched" ELSE "failed"), FALSE)
  /\ UNCHANGED <<steamFeatures, syncLogs, isConnected, clock, sheet, proc, csv>>

\* one iteration of enrichNewFestivalsWithAI: the lookup gives data, none
\* or throws; ok tells whether the updateOne of the try block is accepted,
\* okCatch whether the updateOne of the catch block is
AIRecord(outcome, ok, okCatch) ==
  /\ InLoop("ai")
  /\ outcome \in {"data", "nodata", "throws"}
  /\ outcome = "throws" => ok
  /\ (ok /\ outcome # "throws") => okCatch
  /\ Rejections((IF ok THEN 0 ELSE 1) + (IF okCatch THEN 0 ELSE 1))
  /\ festivals' =
       IF ok /\ outcome = "data"
       THEN UpdateById(festivals, Current, AIUpdate(festivals[Current], "enriched", clock))
       ELSE IF ok /\ outcome = "nodata"
       THEN UpdateById(festivals, Current, AIUpdate(festivals[Current], "failed", clock))
       ELSE IF okCatch
       THEN UpdateById(festivals, Current, AIUpdate(festivals[Current], "failed", clock))
       ELSE festivals
  /\ runner' =
       IF ok /\ outcome = "data"
       THEN EndIteration(Counted(Called(runner, Current), "enriched"), FALSE)
       ELSE IF ok /\ outcome = "nodata"
       THEN EndIteration(Counted(Called(runner, Current), "failed"), TRUE)
       ELSE IF okCatch
       THEN EndIteration(Counted(Called(runner, Current), "failed"), FALSE)
       ELSE Reject(Called(runner, Current))
  /\ UNCHANGED <<steamFeatures, syncLogs, isConnected, clock, sheet, proc, csv>>

\* await delay(delayMs) / await sleep(delayMs) between two festivals
Delay ==
  /\ runner.pc = "delay"
  /\ runner' = [runner EXCEPT !.pc = "record", !.i = @ + 1, !.slept = TRUE]
  /\ UNCHANGED <<festivals, steamFeatures, syncLogs, isConnected, clock, faults, sheet,
                 proc, csv>>

\* return stats, after the last festival
ReturnStats ==
  /\ runner.pc = "record"
  /\ runner.i > Len(runner.list)
  /\ runner' = [runner EXCEPT !.pc = "returned"]
  /\ UNCHANGED <<festivals, steamFeatures, syncLogs, isConnected, clock, faults, sheet,
                 proc, csv>>

\* triggerFrontendRevalidation and the 200 answer of the cron handler
Revalidate ==
  /\ proc["cron"].pc = "revalidate"
  /\ proc' = [proc EXCEPT !["cron"].pc = "responded", !["cron"].status = 200,
                          !["cron"].effects = @ \cup {"revalidate"}]
  /\ UNCHANGED <<festivals, steamFeatures, syncLogs, isConnected, clock, faults, sheet,
                 csv, runner>>

\* the request is over: the handler's locals are gone
Complete(p) ==
  /\ proc[p].pc = "responded"
  /\ proc' = [proc EXCEPT ![p] = IdleProc]
  /\ UNCHANGED <<festivals, steamFeatures, syncLogs, isConnected, clock, faults, sheet,
                 csv, runner>>

\* ------------------------------------------------ CSV path: syncAllData
Years == {"", "2025"}          \* the year of a row's deadline, "" without one

\* the rows parseCuratedCSV / parseOnTheFenceCSV keep of a file
CsvRows(c) ==
  {[name |-> n, content |-> 1, year |-> y] : n \in SheetNames(c), y \in Years}

CsvContents(c) == SeqsUpTo(CsvRows(c), MaxRows)

\* Festival.findOne({slug})
HolderOf(fs, slug) == {q \in Keys : Stored(fs, q) /\ fs[q].slug = slug}

\* findOneAndUpdate({slug}, festival, {upsert: true}) breaks the unique
\* index (name, category): another document already has the row's key
DuplicateKey(fs, row, c) ==
  /\ Stored(fs, <<row.name, c>>)
  /\ <<row.name, c>> \notin HolderOf(fs, GenerateUniqueSlug(row.name, row.year))

\* findOneAndUpdate({slug: festival.slug}, festival, {upsert: true}): the
\* document that holds the slug takes the row's name, category and fields;
\* without a holder the row is inserted
CsvUpsert(fs, row, c) ==
  LET k == <<row.name, c>>
      slug == GenerateUniqueSlug(row.name, row.year)
  IN
  IF HolderOf(fs, slug) # {}
  THEN LET q == CHOOSE h \in HolderOf(fs, slug) : TRUE IN
       [x \in Keys |-> IF x = k THEN [fs[q] EXCEPT !.content = row.content]
                       ELSE IF x = q THEN Absent ELSE fs[x]]
  ELSE [fs EXCEPT ![k] = [content |-> row.content, lastSyncedAt |-> NullDate,
                          slug |-> slug,
                          enrichment |-> DefaultEnrichment,
                          aiEnrichment |-> DefaultAIEnrichment]]

NextFile(file) == IF file = "curated" THEN "on-the-fence" ELSE "steam"

\* the catch block of one file of syncAllData
CsvFailed(c, file) ==
  [c EXCEPT !.errors = Append(@, SheetLabel(file) \o ": error"),
            !.pc = IF file = "steam" THEN "log" ELSE "parse",
            !.file = IF file = "steam" THEN "steam" ELSE NextFile(file),
            !.rows = <<>>, !.i = 1]

\* syncAllData is called (npm run sync, POST /api/sync)
SyncAllData ==
  /\ csv.pc = "idle"
  /\ runner.pc = "idle"
  /\ csv' = [csv EXCEPT !.pc = "parse", !.file = "curated"]
  /\ UNCHANGED <<festivals, steamFeatures, syncLogs, isConnected, clock, faults, sheet,
                 proc, runner>>

\* parseCuratedCSV / parseOnTheFenceCSV up to the upsert loop: the file is
\* missing (ok = FALSE) or gives rows
ParseFestivalCsv(ok, rows) ==
  /\ csv.pc = "parse" /\ csv.file \in Categories
  /\ IF ok
     THEN /\ rows \in CsvContents(csv.file)
          /\ csv' = [csv EXCEPT !.pc = "upsert", !.rows = rows, !.i = 1,
                                !.parsed[csv.file] = rows]
     ELSE /\ rows = <<>>
          /\ csv' = CsvFailed(csv, csv.file)
  /\ UNCHANGED <<festivals, steamFeatures, syncLogs, isConnected, clock, faults, sheet,
                 proc, runner>>

\* one iteration of the upsert loop; a rejected findOneAndUpdate ends the
\* parse function, and syncAllData records its message
UpsertCsvRow(ok) ==
  LET row == csv.rows[csv.i] IN
  /\ csv.pc = "upsert" /\ csv.i <= Len(csv.rows)
  /\ StoreCall(ok)
  /\ IF ok /\ ~DuplicateKey(festivals, row, csv.file)
     THEN /\ festivals' = CsvUpsert(festivals, row, csv.file)
          /\ csv' = [csv EXCEPT !.i = @ + 1]
     ELSE /\ festivals' = festivals
          /\ csv' = CsvFailed(csv, csv.file)
  /\ UNCHANGED <<steamFeatures, syncLogs, isConnected, clock, sheet, proc, runner>>

\* the end of a parse function and Festival.countDocuments({category})
FinishCsvFile ==
  /\ csv.pc = "upsert" /\ csv.i > Len(csv.rows)
  /\ csv' = [csv EXCEPT !.festivalsCount =
                          @ + Cardinality(InCategory(festivals, csv.file)),
                        !.pc = "parse", !.file = NextFile(csv.file),
                        !.rows = <<>>, !.i = 1]
  /\ UNCHANGED <<festivals, steamFeatures, syncLogs, isConnected, clock, faults, sheet,
                 proc, runner>>

\* parseSteamTrackerCSV and SteamFeature.countDocuments
ParseSteamTrackerCsv(ok, names) ==
  /\ csv.pc = "parse" /\ csv.file = "steam"
  /\ StoreCall(ok)
  /\ IF ok
     THEN /\ names \in SteamContents
          /\ steamFeatures' = steamFeatures \cup {names[j] : j \in 1..Len(names)}
          /\ csv' = [csv EXCEPT !.steamFeaturesCount = Cardinality(steamFeatures'),
                                !.pc = "log"]
     ELSE /\ names = <<>>
          /\ steamFeatures' = steamFeatures
          /\ csv' = CsvFailed(csv, "steam")
  /\ UNCHANGED <<festivals, syncLogs, isConnected, clock, sheet, proc, runner>>

\* SyncLog.create of syncAllData, then its return; a rejected create
\* rejects syncAllData
CreateCsvSyncLog(ok) ==
  /\ csv.pc = "log"
  /\ StoreCall(ok)
  /\ syncLogs' = IF ok
                 THEN Append(syncLogs,
                             [syncedAt |-> clock,
                              festivalsCount |-> csv.festivalsCount,
                              steamFeaturesCount |-> csv.steamFeaturesCount,
                              status |-> SyncStatus(csv.errors),
                              syncErrors |-> csv.errors])
                 ELSE syncLogs
  /\ csv' = [csv EXCEPT !.pc = IF ok THEN "returned" ELSE "rejected"]
  /\ UNCHANGED <<festivals, steamFeatures, isConnected, clock, sheet, proc, runner>>

\* generateMissingSlugs of the sync script
GenerateMissingSlugs(ord) ==
  /\ csv.pc \in {"idle", "returned", "rejected"}
  /\ runner.pc \in {"idle", "returned", "rejected"}
  /\ ord \in Orders({k \in Keys : Stored(festivals, k) /\ festivals[k].slug = NoSlug})
  /\ ord # <<>>
  /\ festivals' = SetSlugs(festivals, ord)
  /\ UNCHANGED <<steamFeatures, syncLogs, isConnected, clock, faults, sheet, proc, csv,
                 runner>>

\* ---------------------------------------------------------- specification
\* the steps of a pass but the fetches of the sheets
PassStep(p) ==
  \/ \E ok \in BOOLEAN : UpsertRow(p, ok)
  \/ FinishFestivalSheet(p)
  \/ \E ok \in BOOLEAN : UpsertSteamFeature(p, ok)
  \/ FinishSteamSheet(p)
  \/ \E ok \in BOOLEAN : FindStale(p, ok)
  \/ \E ok \in BOOLEAN : DeleteStale(p, ok)
  \/ WriteSyncLog(p)

\* Spec: passes started through POST /api/sync/sheets, one at a time, over
\* any export of the sheets
Next ==
  \/ SheetsRequest("none", MaxPasses)
  \/ \E raw \in SheetContents(proc["sheets"].sheet) :
        FetchFestivalSheet("sheets", FALSE, raw)
  \/ FetchFestivalSheet("sheets", TRUE, <<>>)
  \/ \E raw \in SteamContents : FetchSteamSheet("sheets", FALSE, raw)
  \/ FetchSteamSheet("sheets", TRUE, <<>>)
  \/ PassStep("sheets")
  \/ SheetsRespond
  \/ Complete("sheets")

Spec == Init /\ [][Next]_vars

\* SpecCron: the cron handler and POST /api/sync/sheets, each reached with any
\* Authorization header, one request at a time, over short exports
ShortContents == SeqsUpTo({[name |-> "A", content |-> 1]}, 1)

InitCron ==
  /\ festivals \in {fs \in InitialStores :
                      \A k \in Keys : fs[k] \in {Absent, LegacyDoc}}
  /\ sheet = NoSheet
  /\ InitCommon

NextCron ==
  \/ \E hdr \in Headers : Sequential("cron") /\ CronRequest(hdr)
  \/ \E ok \in BOOLEAN : Sequential("cron") /\ CronConnect(ok, MaxPasses)
  \/ \E hdr \in Headers : Sequential("sheets") /\ SheetsRequest(hdr, MaxPasses)
  \/ \E p \in Handlers, raw \in ShortContents : FetchFestivalSheet(p, FALSE, raw)
  \/ \E p \in Handlers : FetchFestivalSheet(p, TRUE, <<>>)
  \/ \E p \in Handlers : FetchSteamSheet(p, FALSE, <<"A">>)
  \/ \E p \in Handlers : FetchSteamSheet(p, TRUE, <<>>)
  \/ \E p \in Handlers : PassStep(p)
  \/ SheetsRespond
  \/ \E selected \in SUBSET Keys :
       \E found \in SUBSET selected : EnrichImages(selected, found)
  \/ \E selected \in SUBSET Keys :
       \E enriched \in SUBSET selected : EnrichAI(selected, enriched)
  \/ Revalidate
  \/ \E p \in Handlers : Complete(p)

SpecCron == InitCron /\ [][NextCron]_vars

\* SpecIdem: IdemPasses passes in a row through POST /api/sync/sheets, over
\* festival sheets whose export stays the same and a Steam sheet of one row
InitIdem ==
  /\ festivals \in {fs \in InitialStores :
                      \A k \in Keys : fs[k] = Absent \/ k = <<"B", "curated">>}
  /\ sheet \in {sh \in [Categories -> SheetContents("curated")] :
                  \A c \in Categories : sh[c] \in SheetContents(c)}
  /\ InitCommon

NextIdem ==
  \/ SheetsRequest("none", IdemPasses)
  \/ FetchFestivalSheet("sheets", FALSE, sheet[proc["sheets"].sheet])
  \/ FetchFestivalSheet("sheets", TRUE, <<>>)
  \/ FetchSteamSheet("sheets", FALSE, <<"A">>)
  \/ FetchSteamSheet("sheets", TRUE, <<>>)
  \/ PassStep("sheets")
  \/ SheetsRespond
  \/ Complete("sheets")

SpecIdem == InitIdem /\ [][NextIdem]_vars

\* one invocation of one Enrichment Runner, from an HTTP route or from the
\* post-sync step, over stores of untouched, enriched and outdated festivals
InitEnrich ==
  /\ festivals \in {fs \in [Keys -> {Absent, LegacyDoc, EnrichedDoc, OutdatedDoc}] :
                      \A k \in Keys :
                        (k = <<"B", "on-the-fence">> \/ k[1] = "C") => fs[k] = Absent}
  /\ sheet = NoSheet
  /\ InitCommon

RecordOutcomes == {"data", "partial", "nodata", "throws", "skipped"}

NextEnrich ==
  \/ /\ runner.pc = "idle"
     /\ \E force \in BOOLEAN, param \in LimitParams :
          \E list \in Selections(festivals, "scrape", force,
                                  StartEnrichmentLimit(param)) :
            StartEnrichment(force, param, list)
  \/ /\ runner.pc = "idle"
     /\ \E param \in LimitParams :
          \E list \in Selections(festivals, "steam", FALSE,
                                  EnrichFromSteamLimit(param)) :
            EnrichFromSteam(param, list)
  \/ /\ runner.pc = "idle"
     /\ \E list \in Selections(festivals, "image", FALSE, IMAGE_LIMIT) :
          EnrichNewFestivalsWithImages(list)
  \/ /\ runner.pc = "idle"
     /\ \E list \in Selections(festivals, "ai", FALSE, AI_LIMIT) :
          EnrichNewFestivalsWithAI(list)
  \/ \E outcome \in RecordOutcomes, ok \in BOOLEAN : ScrapeRecord(outcome, ok)
  \/ \E outcome \in RecordOutcomes, ok \in BOOLEAN : SteamRecord(outcome, ok)
  \/ \E outcome \in RecordOutcomes, ok \in BOOLEAN : ImageRecord(outcome, ok)
  \/ \E outcome \in RecordOutcomes, ok, okCatch \in BOOLEAN :
       AIRecord(outcome, ok, okCatch)
  \/ Delay
  \/ ReturnStats

SpecEnrich == InitEnrich /\ [][NextEnrich]_vars

\* one run of the CSV path, one run of the image-search runner and the slug
\* script, over stores the Google-Sheets path left (documents without slug)
InitCsv ==
  /\ festivals \in {fs \in [Keys -> {Absent, LegacyDoc}] :
                      \A k \in Keys : k[1] # "A" => fs[k] = Absent}
  /\ sheet = NoSheet
  /\ InitCommon

NextCsv ==
  \/ SyncAllData
  \/ \E ok \in BOOLEAN, rows \in CsvContents("curated") : ParseFestivalCsv(ok, rows)
  \/ \E ok \in BOOLEAN : UpsertCsvRow(ok)
  \/ FinishCsvFile
  \/ \E ok \in BOOLEAN : ParseSteamTrackerCsv(ok, IF ok THEN <<"A">> ELSE <<>>)
  \/ \E ok \in BOOLEAN : CreateCsvSyncLog(ok)
  \/ /\ csv.pc \in {"idle", "returned", "rejected"}
     /\ runner.pc = "idle"
     /\ \E list \in Selections(festivals, "image", FALSE, IMAGE_LIMIT) :
          EnrichNewFestivalsWithImages(list)
  \/ \E outcome \in RecordOutcomes, ok \in BOOLEAN : ImageRecord(outcome, ok)
  \/ Delay
  \/ ReturnStats
  \/ /\ csv.pc \in {"idle", "returned", "rejected"}
     /\ runner.pc \in {"idle", "returned", "rejected"}
     /\ \E ord \in Orders({k \in Keys : Stored(festivals, k)
                                        /\ festivals[k].slug = NoSlug}) :
          GenerateMissingSlugs(ord)

SpecCsv == InitCsv /\ [][NextCsv]_vars

\* SpecOverlap: the cron handler and POST /api/sync/sheets run a pass each,
\* at any interleaving of their steps, over festival sheets whose export
\* stays the same (a curated sheet with rows, an empty on-the-fence sheet);
\* the image search of the cron handler finds nothing
InitOverlap ==
  /\ festivals \in {fs \in InitialStores :
                      \A k \in Keys : fs[k] = Absent \/ k = <<"B", "curated">>}
  /\ sheet \in {sh \in [Categories -> SheetContents("curated")] :
                  /\ sh["curated"] # <<>> /\ sh["on-the-fence"] = <<>>
                  /\ \A j \in 1..Len(sh["curated"]) :
                       sh["curated"][j].name # "" /\ sh["curated"][j].content = 1}
  /\ InitCommon

NextOverlap ==
  \/ CronRequest("Bearer " \o CRON_SECRET)
  \/ \E ok \in BOOLEAN : CronConnect(ok, IdemPasses)
  \/ SheetsRequest("none", IdemPasses)
  \/ \E p \in Handlers : FetchFestivalSheet(p, FALSE, sheet[proc[p].sheet])
  \/ \E p \in Handlers : FetchSteamSheet(p, FALSE, <<"A">>)
  \/ \E p \in Handlers : PassStep(p)
  \/ SheetsRespond
  \/ \E selected \in SUBSET Keys : EnrichImages(selected, {})
  \/ \E selected \in SUBSET Keys : EnrichAI(selected, selected)
  \/ Revalidate
  \/ \E p \in Handlers : Complete(p)

SpecOverlap == InitOverlap /\ [][NextOverlap]_vars

\* SpecRace: one pass through POST /api/sync/sheets and one Enrichment
\* Runner invocation (a route, the post-sync step or the script), at any
\* interleaving of their steps; the curated sheet exports the festival A, so
\* the pass deletes the stored festival B as stale
RaceSheet ==
  [c \in Categories |->
     IF c = "curated" THEN <<[name |-> "A", content |-> 1]>> ELSE <<>>]

InitRace ==
  /\ festivals \in {fs \in [Keys -> {Absent, LegacyDoc, EnrichedDoc, OutdatedDoc}] :
                      /\ fs[<<"A", "curated">>] \in {Absent, EnrichedDoc}
                      /\ fs[<<"B", "curated">>] # Absent
                      /\ \A k \in Keys :
                           (k[2] = "on-the-fence" \/ k[1] = "C") => fs[k] = Absent}
  /\ sheet = RaceSheet
  /\ InitCommon

NextRace ==
  \/ SheetsRequest("none", MaxPasses)
  \/ FetchFestivalSheet("sheets", FALSE, sheet[proc["sheets"].sheet])
  \/ FetchSteamSheet("sheets", FALSE, <<"A">>)
  \/ PassStep("sheets")
  \/ SheetsRespond
  \/ Complete("sheets")
  \/ /\ runner.pc = "idle"
     /\ \E force \in BOOLEAN :
          \E list \in Selections(festivals, "scrape", force, StartEnrichmentLimit({})) :
            StartEnrichment(force, {}, list)
  \/ /\ runner.pc = "idle"
     /\ \E list \in Selections(festivals, "steam", FALSE, EnrichFromSteamLimit({})) :
          EnrichFromSteam({}, list)
  \/ /\ runner.pc = "idle"
     /\ \E list \in Selections(festivals, "image", FALSE, IMAGE_LIMIT) :
          EnrichNewFestivalsWithImages(list)
  \/ /\ runner.pc = "idle"
     /\ \E list \in Selections(festivals, "ai", FALSE, AI_LIMIT) :
          EnrichNewFestivalsWithAI(list)
  \/ /\ runner.pc = "idle"
     /\ \E forceReEnrich, onlyFailed \in BOOLEAN :
          \E list \in Orders(ScriptQuery(festivals, forceReEnrich, onlyFailed)) :
            ScriptEnrichAll(forceReEnrich, onlyFailed, list)
  \/ \E outcome \in RecordOutcomes, ok \in BOOLEAN : ScrapeRecord(outcome, ok)
  \/ \E outcome \in RecordOutcomes, ok \in BOOLEAN : SteamRecord(outcome, ok)
  \/ \E outcome \in RecordOutcomes, ok \in BOOLEAN : ImageRecord(outcome, ok)
  \/ \E outcome \in RecordOutcomes, ok, okCatch \in BOOLEAN :
       AIRecord(outcome, ok, okCatch)
  \/ Delay
  \/ ReturnStats

SpecRace == InitRace /\ [][NextRace]_vars

\* the cron handler has answered; the schedule invokes it again, and its
\* post-sync step starts from nothing
NextCronRun ==
  /\ runner.pc = "returned"
  /\ runner.via = "cron"
  /\ runner' = IdleRunner
  /\ UNCHANGED <<festivals, steamFeatures, syncLogs, isConnected, clock, faults, sheet,
                 proc, csv>>

\* SpecStarve: the post-sync image search of one cron run after the other
\* (limit IMAGE_LIMIT), over a store of six festivals without an image; every
\* step that can be taken is taken in the end
InitStarve ==
  /\ festivals = [k \in Keys |-> LegacyDoc]
  /\ sheet = NoSheet
  /\ InitCommon

\* one iteration of the image pass, with any answer of the search
SearchAndSave == \E outcome \in RecordOutcomes : ImageRecord(outcome, TRUE)

NextStarve ==
  \/ /\ runner.pc = "idle"
     /\ \E list \in Selections(festivals, "image", FALSE, IMAGE_LIMIT) :
          EnrichNewFestivalsWithImages(list)
  \/ SearchAndSave
  \/ Delay
  \/ ReturnStats
  \/ NextCronRun

\* every cron run takes place (the runner does not stay idle for ever), and
\* a run that has started goes on to its end
SpecStarve ==
  /\ InitStarve /\ [][NextStarve]_vars
  /\ []<>(runner.pc # "idle")
  /\ WF_vars(SearchAndSave) /\ WF_vars(Delay) /\ WF_vars(ReturnStats)
  /\ WF_vars(NextCronRun)

\* -------------------------------------------------------------- properties
\* the pass started through POST /api/sync/sheets
pass == proc["sheets"]

\* syncFromGoogleSheets has written its SyncLog and returned its report
Returned(pr) == pr.pc = "done"

\* the part of a store that belongs to category c
Partition(fs, c) == [n \in Names |-> fs[<<n, c>>]]

\* the keys of category c whose upsert succeeded in the pass
Upserted(pr, c) ==
  {<<pr.result[c].syncedNames[j], c>> : j \in 1..Len(pr.result[c].syncedNames)}

FailedIn(pr, c) == {k \in pr.failed : k[2] = c}

\* the sheet-level error strings syncFromGoogleSheets can push for sheet s
SheetErrors(s) == {SheetLabel(s) \o ": " \o m : m \in {FetchError, "upsert failed"}}

EntriesFor(errs, s) == {j \in 1..Len(errs) : errs[j] \in SheetErrors(s)}

\* C1 as stated: once a pass with epoch T has returned, every stored record
\* of every festival partition has lastSyncedAt = T.
C1_EveryRecordStamped ==
  \A c \in Categories :
    Returned(pass) =>
      \A k \in InCategory(festivals, c) : festivals[k].lastSyncedAt = {pass.timestamp}

\* C1, amended: once a pass with epoch T that upserted at least one record of
\* partition P has returned, every stored record of P has lastSyncedAt = T, and
\* every record of P that the pass did not upsert has been deleted.
C1_StampedWhenUpserted ==
  \A c \in Categories :
    (Returned(pass) /\ pass.result[c].count > 0) =>
      /\ \A k \in InCategory(festivals, c) : festivals[k].lastSyncedAt = {pass.timestamp}
      /\ InCategory(festivals, c) = Upserted(pass, c)

\* a pass upserted into a partition and deleted a record of it that had no
\* lastSyncedAt at all
C1_Witness ==
  \E k \in Keys :
    /\ Returned(pass) /\ pass.result[k[2]].count > 0
    /\ Stored(pass.before, k) /\ pass.before[k].lastSyncedAt = NullDate
    /\ ~Stored(festivals, k)

\* C2: a partition whose sheet gave zero usable rows, or whose fetch failed,
\* has count 0 in the report and the same records, unchanged, after the pass as
\* before it; so has any partition in which the pass upserted nothing.
C2_NoUpsertNoDeletion ==
  \A c \in Categories :
    Returned(pass) =>
      /\ (pass.usable[c] = 0 \/ ~pass.result[c].success) => pass.result[c].count = 0
      /\ pass.result[c].count = 0 => Partition(festivals, c) = Partition(pass.before, c)

\* a pass found zero usable rows in a partition that holds a stale record, and
\* deleted stale records of the other partition
C2_Witness ==
  \E c \in Categories :
    /\ Returned(pass) /\ pass.usable[c] = 0 /\ pass.deletedCount > 0
    /\ \E k \in InCategory(festivals, c) : IsStale(festivals[k], pass.timestamp)

\* C3: a record stored when the pass began and still stored keeps its
\* enrichment and aiEnrichment sub-documents, at every point of the pass.
C3_EnrichmentPreserved ==
  \A k \in Keys :
    (pass.pc # "idle" /\ Stored(pass.before, k) /\ Stored(festivals, k)) =>
      /\ festivals[k].enrichment = pass.before[k].enrichment
      /\ festivals[k].aiEnrichment = pass.before[k].aiEnrichment

\* the pass upserted an enriched record with new descriptive content
C3_Witness ==
  \E k \in Keys :
    /\ Stored(pass.before, k) /\ Stored(festivals, k)
    /\ pass.before[k].enrichment.imageUrl = "img"
    /\ pass.before[k].aiEnrichment.enrichmentStatus = "enriched"
    /\ festivals[k].lastSyncedAt = {pass.timestamp}
    /\ festivals[k].content # pass.before[k].content

\* a festival loop has handled its last row
LoopOver(pr) == pr.pc = "upsert" /\ pr.sheet \in Categories /\ pr.i > Len(pr.rows)

\* C7: when a festival loop is over, every row of the deduplicated set whose
\* upsert did not throw is stored with the row's content and the pass's
\* timestamp and is counted, whatever rows threw before or after it.
C7_LoopGoesOn ==
  LoopOver(pass) =>
    /\ \A j \in 1..Len(pass.rows) :
         LET k == <<pass.rows[j].name, pass.sheet>> IN
         k \notin pass.failed =>
           /\ Stored(festivals, k)
           /\ festivals[k].content = pass.rows[j].content
           /\ festivals[k].lastSyncedAt = {pass.timestamp}
    /\ pass.syncedCount = Len(pass.rows) - Cardinality(FailedIn(pass, pass.sheet))

\* the upsert of the first of two rows threw and the second row was upserted
C7_Witness ==
  /\ LoopOver(pass) /\ Len(pass.rows) = 2
  /\ <<pass.rows[1].name, pass.sheet>> \in pass.failed
  /\ pass.syncedCount = 1

\* C8 as stated: when exactly one row failed to persist, the report's error
\* list and the audit entry's have exactly one entry, which is not a
\* sheet-level entry but names the row.
C8_OneEntryPerFailedRow ==
  (Returned(pass) /\ Cardinality(pass.failed) = 1) =>
    /\ Len(pass.errors) = 1
    /\ \A s \in Sheets : pass.errors[1] \notin SheetErrors(s)
    /\ syncLogs[Len(syncLogs)].syncErrors = pass.errors

\* C9 as stated: a partition whose sheet gave zero rows has an error entry in
\* the report.
C9_ZeroRowsReported ==
  \A c \in Categories :
    (Returned(pass) /\ pass.usable[c] = 0) => EntriesFor(pass.errors, c) # {}

\* the fetch of the sheet of c failed in the pass
FetchFailed(pr, c) == pr.result[c].error = FetchError

\* C10: when the fetch of a partition's sheet failed, the partition's records
\* are as they were before the pass, the report has exactly one entry for the
\* partition, the other partition was fetched, its upserted rows are stored
\* with the pass's timestamp and its stale records are gone, and the Steam
\* sheet was handled and its upserted rows are stored.
C10_FetchFailureContained ==
  \A c \in Categories :
    (Returned(pass) /\ FetchFailed(pass, c)) =>
      /\ Partition(festivals, c) = Partition(pass.before, c)
      /\ pass.result[c].count = 0
      /\ Cardinality(EntriesFor(pass.errors, c)) = 1
      /\ \A o \in Categories \ {c} :
           /\ pass.result[o].success \/ FetchFailed(pass, o)
           /\ pass.result[o].success => Upserted(pass, o) \subseteq InCategory(festivals, o)
           /\ pass.result[o].count > 0 =>
                \A k \in InCategory(festivals, o) :
                  festivals[k].lastSyncedAt = {pass.timestamp}
      /\ pass.result["steam"].success \/ pass.result["steam"].error # ""
      /\ pass.result["steam"].success =>
           /\ pass.result["steam"].count = Len(pass.result["steam"].syncedNames)
           /\ \A j \in 1..Len(pass.result["steam"].syncedNames) :
                pass.result["steam"].syncedNames[j] \in steamFeatures

\* the curated fetch failed over a stored curated record, while the pass
\* upserted and deleted in on-the-fence and stored a Steam feature
C10_Witness ==
  /\ Returned(pass) /\ FetchFailed(pass, "curated")
  /\ InCategory(festivals, "curated") # {}
  /\ pass.result["on-the-fence"].count > 0 /\ pass.deletedCount > 0
  /\ pass.result["steam"].count > 0 /\ steamFeatures # {}

\* the request of handler p carried the configured bearer secret
CarriesSecret(pr) == pr.authHeader = "Bearer " \o CRON_SECRET

\* C4 as stated: under SpecCron, whichever entry point it came through, a
\* request runs a sync pass only when it carries the bearer secret.
C4_PassOnlyWithSecret ==
  \A p \in Handlers : "sync" \in proc[p].effects => CarriesSecret(proc[p])

\* C5: under SpecCron, a cron request whose Authorization header is not
\* 'Bearer <CRON_SECRET>' is answered 401 at once, having connected to no
\* database and run no sync, no enrichment and no revalidation.
C5_CronRejectsWithoutSecret ==
  (proc["cron"].pc # "idle" /\ ~CarriesSecret(proc["cron"])) =>
    /\ proc["cron"].pc = "responded"
    /\ proc["cron"].status = 401
    /\ proc["cron"].effects = {}

\* the cron handler answered 401 to the bare secret, and to no header, while
\* the store held a record and no connection
C5_Witness ==
  /\ proc["cron"].status = 401
  /\ proc["cron"].authHeader \in {CRON_SECRET, "none"}
  /\ ~isConnected /\ festivals # EmptyStore

\* the passes before the running one fetched both festival sheets
EarlierFetchesOk ==
  \A n \in 1..(Len(syncLogs) - 1), c \in Categories :
    EntriesFor(syncLogs[n].syncErrors, c) = {}

\* the audit entry of the pass before the running one
PreviousLog == syncLogs[Len(syncLogs) - 1]

\* the last of IdemPasses passes that fetched both festival sheets and in
\* which no store call was rejected has returned
SecondCleanPass ==
  /\ Returned(pass) /\ Len(syncLogs) = IdemPasses
  /\ faults = 0 /\ EarlierFetchesOk
  /\ \A c \in Categories : pass.result[c].success

\* C6: under SpecIdem, when the second of two passes over the same export has
\* returned, the records stored are those stored after the first, with the
\* same content and enrichment; the lastSyncedAt of a record is what it was or
\* has moved from the first pass's timestamp to the second's, which is later,
\* and has moved for every record the second pass upserted;
\* and the second pass deleted nothing.
C6_SecondPassIdempotent ==
  SecondCleanPass =>
    /\ \A k \in Keys :
         /\ Stored(festivals, k) <=> Stored(pass.before, k)
         /\ Stored(festivals, k) =>
              /\ festivals[k].content = pass.before[k].content
              /\ festivals[k].enrichment = pass.before[k].enrichment
              /\ festivals[k].aiEnrichment = pass.before[k].aiEnrichment
              /\ \/ festivals[k].lastSyncedAt = pass.before[k].lastSyncedAt
                 \/ /\ pass.before[k].lastSyncedAt = {PreviousLog.syncedAt}
                    /\ festivals[k].lastSyncedAt = {pass.timestamp}
         /\ k \in Upserted(pass, k[2]) =>
              Stored(festivals, k) /\ festivals[k].lastSyncedAt = {pass.timestamp}
    /\ PreviousLog.syncedAt < pass.timestamp
    /\ pass.deletedCount = 0

\* the first pass deleted a record and changed another's content, and the
\* second pass upserted two records again
C6_Witness ==
  /\ SecondCleanPass
  /\ pass.result["curated"].count = 2
  /\ Cardinality(InCategory(festivals, "curated")) = 2
  /\ sheet["curated"][1].content = 2
  /\ sheet["on-the-fence"] # <<>>

\* the first row of s that has name n
FirstWith(s, n) ==
  s[CHOOSE j \in 1..Len(s) : s[j].name = n /\ \A i \in 1..(j - 1) : s[i].name # n]

NamesOf(s) == {s[j].name : j \in 1..Len(s)}

\* C11: under SpecIdem, the rows a festival loop works on hold every name of
\* the sheet's usable rows exactly once, each with the fields of the first
\* usable row of that name, and every row the loop has upserted is stored with
\* those fields.
C11_FirstOccurrenceWins ==
  (pass.pc = "upsert" /\ pass.sheet \in Categories) =>
    LET src == Normalize(sheet[pass.sheet], pass.sheet) IN
    /\ NamesOf(pass.rows) = NamesOf(src)
    /\ \A j \in 1..Len(pass.rows) :
         /\ pass.rows[j] = FirstWith(src, pass.rows[j].name)
         /\ \A i \in 1..Len(pass.rows) : pass.rows[i].name = pass.rows[j].name => i = j
         /\ (j < pass.i /\ <<pass.rows[j].name, pass.sheet>> \notin pass.failed) =>
              festivals[<<pass.rows[j].name, pass.sheet>>].content =
                FirstWith(src, pass.rows[j].name).content

\* the curated sheet lists a festival twice with different fields and the
\* loop has stored the first row's
C11_Witness ==
  /\ pass.pc = "upsert" /\ pass.sheet = "curated" /\ pass.i > Len(pass.rows)
  /\ Len(sheet["curated"]) = 2 /\ Len(pass.rows) = 1
  /\ sheet["curated"][1].name = sheet["curated"][2].name
  /\ sheet["curated"][1].content # sheet["curated"][2].content
  /\ festivals[<<pass.rows[1].name, "curated">>] # Absent
  /\ festivals[<<pass.rows[1].name, "curated">>].content = sheet["curated"][1].content

\* a pass is over: its report was returned or it rejected
Ended(pr) == pr.pc = "done" \/ (pr.pc = "responded" /\ "sync" \in pr.effects)

\* C15 as stated: every pass that is over has exactly one audit entry, also
\* when a store call of the pass was rejected.
C15_OneAuditEntryPerRun ==
  Ended(pass) =>
    Cardinality({n \in 1..Len(syncLogs) : syncLogs[n].syncedAt = pass.timestamp}) = 1

\* C20: a step of a pass removes a festival record only in the stale block of
\* the record's partition, after that partition's sheet result had success and
\* a count above 0, and only when the record's lastSyncedAt was null or before
\* the pass's timestamp; no step removes a SteamFeature record.
C20_DeletesOnlyStale ==
  [][/\ \A k \in Keys :
          (Stored(festivals, k) /\ ~Stored(festivals', k)) =>
            /\ pass.pc = "delete" /\ pass.sheet = k[2]
            /\ pass.result[k[2]].success /\ pass.result[k[2]].count > 0
            /\ \/ festivals[k].lastSyncedAt = NullDate
               \/ \E d \in festivals[k].lastSyncedAt : d < pass.timestamp
     /\ steamFeatures \subseteq steamFeatures']_vars

\* a pass deleted a curated record, kept the curated record it had stamped and
\* the on-the-fence record of the deleted one's name, and stored a Steam feature
C20_Witness ==
  /\ Returned(pass) /\ pass.deletedCount > 0 /\ steamFeatures # {}
  /\ \E k \in InCategory(pass.before, "curated") :
       /\ ~Stored(festivals, k)
       /\ Stored(festivals, <<k[1], "on-the-fence">>)
  /\ \E k \in InCategory(festivals, "curated") :
       festivals[k].lastSyncedAt = {pass.timestamp}

\* a run's list, as its query returned it, before the first iteration
JustSelected(strategy) ==
  /\ runner.pc = "record" /\ runner.strategy = strategy
  /\ runner.i = 1 /\ runner.stats.skipped = 0 /\ runner.attempted = {}

Marked(strategy, doc) ==
  IF strategy = "ai"
  THEN doc.aiEnrichment.enrichmentStatus = "enriched"
  ELSE doc.enrichment.verificationStatus = "verified"

ListSet(r) == {r.list[j] : j \in 1..Len(r.list)}

C16_ApiBatchBounded ==
  (runner.pc # "idle" /\ runner.via = "http" /\ runner.limitParam \in {{}, {0}})
    => runner.limit = 10

\* C17 as stated: no strategy call of a run follows the run's previous
\* strategy call without the delay in between.
C17_DelayBetweenCalls == ~runner.noDelayCall

\* C18 as stated: no run rejects; a run that is over has returned its stats,
\* which count every record of its list.
C18_RunnerNeverRejects ==
  /\ runner.pc # "rejected"
  /\ runner.pc = "returned" =>
       runner.stats.enriched + runner.stats.failed + runner.stats.skipped
         = Len(runner.list)

\* C19 as stated: once a run whose store calls were all accepted has
\* returned, every record it attempted has a last-checked timestamp and a
\* status other than pending, in the fields of the run's strategy.
C19_AttemptedIsStamped ==
  (runner.pc = "returned" /\ faults = 0) =>
    \A k \in runner.attempted :
      IF runner.strategy = "ai"
      THEN /\ festivals[k].aiEnrichment.enrichedAt # NullDate
           /\ festivals[k].aiEnrichment.enrichmentStatus # "pending"
      ELSE /\ festivals[k].enrichment.lastCheckedAt # NullDate
           /\ festivals[k].enrichment.verificationStatus # "pending"

\* C13 as stated: once a run of the CSV path has returned without an error,
\* every row of its two festival files is stored under its own key
\* (name, partition).
C13_RowsStoredUnderOwnKey ==
  (csv.pc = "returned" /\ csv.errors = <<>>) =>
    \A c \in Categories : \A j \in 1..Len(csv.parsed[c]) :
      Stored(festivals, <<csv.parsed[c][j].name, c>>)

\* no two stored documents hold the same slug
SlugsDistinct(fs) ==
  \A k1, k2 \in Keys :
    (Stored(fs, k1) /\ Stored(fs, k2) /\ k1 # k2 /\ fs[k1].slug # NoSlug)
      => fs[k1].slug # fs[k2].slug

\* the slug of k is its base slug, held by no other document, or the base
\* slug with the smallest counter from 1 that no other document holds
FirstFreeSlug(fs, k) ==
  LET base == GenerateSlug(k[1]) IN
  \/ fs[k].slug = base /\ ~SlugHeld(fs, k, base)
  \/ /\ SlugHeld(fs, k, base)
     /\ \E n \in 1..Cardinality(Keys) :
          /\ fs[k].slug = Suffixed(base, n)
          /\ ~SlugHeld(fs, k, fs[k].slug)
          /\ \A m \in 1..(n - 1) : SlugHeld(fs, k, Suffixed(base, m))

C21_TotalIsStoredCount ==
  Returned(pass) =>
    Report(pass).totalFestivals
      = Cardinality(InCategory(festivals, "curated"))
          + Cardinality(InCategory(festivals, "on-the-fence"))

\* C22: every audit entry has status success exactly when its error list is
\* empty, partial exactly when the list has one or two errors, and failed
\* exactly when it has three or more.
C22_StatusFromErrorCount ==
  \A n \in 1..Len(syncLogs) :
    LET e == Len(syncLogs[n].syncErrors) IN
    /\ syncLogs[n].status \in {"success", "partial", "failed"}
    /\ syncLogs[n].status = "success" <=> e = 0
    /\ syncLogs[n].status = "partial" <=> (e >= 1 /\ e < 3)
    /\ syncLogs[n].status = "failed" <=> e >= 3

\* a pass all three of whose sheets failed has written its audit entry
C22_Witness ==
  /\ Returned(pass) /\ Len(syncLogs) >= 1
  /\ Len(syncLogs[Len(syncLogs)].syncErrors) = 3
  /\ syncLogs[Len(syncLogs)].status = "failed"
  /\ syncLogs[Len(syncLogs)].syncErrors = pass.errors

\* C23 as stated: the list a run starts on has at most limit records and is
\* in ascending name order.
C23_SelectedInNameOrder ==
  (runner.pc = "record" /\ runner.i = 1 /\ runner.attempted = {}
     /\ runner.stats.skipped = 0) =>
    /\ runner.limit > 0 => Len(runner.list) <= runner.limit
    /\ \A i, j \in 1..Len(runner.list) :
         i < j => NameRank(runner.list[i][1]) <= NameRank(runner.list[j][1])

\* C26 as stated: a festival of the deduplicated source of a pass that was
\* stored before the pass is stored when the pass has returned, whether its
\* upsert succeeded or threw.
C26_SourceRowsSurvive ==
  Returned(pass) =>
    \A c \in Categories : \A k \in Upserted(pass, c) \cup FailedIn(pass, c) :
      Stored(pass.before, k) => Stored(festivals, k)

\* C28 as stated: every festival a pass has inserted has a slug when the
\* pass has returned.
C28_InsertedHaveSlug ==
  Returned(pass) =>
    \A c \in Categories : \A k \in Upserted(pass, c) :
      (~Stored(pass.before, k) /\ Stored(festivals, k)) => festivals[k].slug # NoSlug

\* C29 as stated: the Steam-feature count of a returned pass is the number
\* of Steam rows the pass upserted.
C29_SteamCountIsUpserts ==
  Returned(pass) =>
    pass.result["steam"].count = Len(pass.result["steam"].syncedNames)

\* the keys of the rows the unchanged sheet of category c exports
SourceKeys(c) == {<<sheet[c][j].name, c>> : j \in 1..Len(sheet[c])}

\* C25: under SpecOverlap, a step removes a festival record only as the
\* stale deletion of a pass whose epoch is later than the record's
\* lastSyncedAt (or the record has none); and while no store call has been
\* rejected, a record of the source is removed only after a pass with an
\* earlier epoch has stamped it.
C25_DeletedOnlyByLaterPass ==
  [][\A k \in Keys :
       (Stored(festivals, k) /\ ~Stored(festivals', k)) =>
         \E p \in Handlers :
           /\ proc[p].pc = "delete" /\ proc[p].sheet = k[2] /\ proc'[p].pc # "delete"
           /\ \/ festivals[k].lastSyncedAt = NullDate
              \/ \E d \in festivals[k].lastSyncedAt : d < proc[p].timestamp
           /\ (faults = 0 /\ k \in SourceKeys(k[2])) =>
                \E d \in festivals[k].lastSyncedAt : d >= 1 /\ d < proc[p].timestamp]_vars

\* two passes have written their audit entries, no store call was rejected,
\* and a record of the source is not stored: the later pass deleted it
C25_Witness ==
  /\ Len(syncLogs) = 2 /\ faults = 0
  /\ syncLogs[1].syncErrors = <<>> /\ syncLogs[2].syncErrors = <<>>
  /\ \E k \in SourceKeys("curated") : ~Stored(festivals, k)

\* C25 as stated: once two passes over the same source have both ended with
\* no store call rejected, every record of the source is stored.
C25_SourceStoredAfterBoth ==
  (Len(syncLogs) = 2 /\ faults = 0) =>
    \A k \in SourceKeys("curated") : Stored(festivals, k)

C30_RunnerInsertsNothing ==
  /\ [][runner' # runner =>
          \A k \in Keys : Stored(festivals', k) => Stored(festivals, k)]_vars
  /\ [](\A k \in runner.gone : ~Stored(festivals, k))

\* the AI runner selected the festival B alone, the pass deleted B, and the
\* runner's updateOne for B with the enriched content came after that
C30_Witness ==
  /\ runner.pc = "returned" /\ runner.strategy = "ai"
  /\ runner.list = << <<"B", "curated">> >>
  /\ runner.gone = {<<"B", "curated">>}
  /\ runner.stats.enriched = 1 /\ faults = 0
  /\ ~Stored(festivals, <<"B", "curated">>)

\* C27: under SpecStarve (cron run after cron run, each image pass with limit
\* 5, every run taking place in the end), every stored festival that lacks
\* an image is eventually attempted by the image search.
C27_EveryImagelessAttempted ==
  \A k \in Keys :
    (Stored(festivals, k) /\ NeedsImage(festivals[k])) ~> (k \in runner.attempted)
====
